---- MODULE Spec2Model ----
(***************************************************************************)
(* synctool reconciliation core: src/src/synctool/object.py                *)
(*                                                                         *)
(* One source entry (in the repository) and one destination path (on the   *)
(* host) with its <dest>.saved sibling and its parent directory.  Each     *)
(* step is one use of a SyncObject: it is made (make() takes the two stat  *)
(* snapshots), one operation is run on it, and it is discarded.  Every     *)
(* leaf filesystem call may fail: the set of calls that fail during one    *)
(* operation is an input of the operation.                                 *)
(***************************************************************************)
EXTENDS Integers, Sequences, FiniteSets, TLC

VARIABLES
    DRY_RUN,        \* synctool.lib.DRY_RUN
    BACKUP_COPIES,  \* synctool.param.BACKUP_COPIES
    HAS_LCHOWN,     \* hasattr(os, 'lchown')
    HAS_LCHMOD,     \* hasattr(os, 'lchmod')
    UMASK,          \* the file mode creation mask of the process
    src,            \* the entry at src_path
    dest,           \* the entry at dest_path (type "None": no entry)
    saved,          \* the entry at dest_path + '.saved'
    parent,         \* whether dirname(dest_path) exists
    src_stat,       \* SyncObject.src_stat after make()
    dest_stat,      \* SyncObject.dest_stat after make()
    last,           \* what the last operation did
    prev,           \* the operation before the last one, in brief
    ops,            \* how many operations have run
    used,           \* how many leaf calls have been made to fail
    input,          \* f.readlines() of synctool_aggr.aggregate(f)
    printed,        \* what aggregate() has printed
    aggregated      \* whether aggregate() has run

vars == << DRY_RUN, BACKUP_COPIES, HAS_LCHOWN, HAS_LCHMOD, UMASK, src, dest, saved,
           parent, src_stat, dest_stat, last, prev, ops, used, input, printed,
           aggregated >>

fsvars == << src, dest, saved, parent >>
cfgvars == << DRY_RUN, BACKUP_COPIES, HAS_LCHOWN, HAS_LCHMOD, UMASK >>
objvars == << src_stat, dest_stat, last, prev, ops, used >>
aggrvars == << input, printed, aggregated >>

-----------------------------------------------------------------------------
(* Bounds of the model *)

\* how many operations a run makes
MaxOps == 1
\* how many leaf calls may fail during a run
MaxFaults == 1
\* how many whole IO_SIZE blocks a compared file may span
MaxBlocks == 2

(* Program constants *)

\* IO_SIZE = 16 * 1024
IO_SIZE == 16384
\* the mask 07777 of set_permissions() and VNodeDir.create()
PERM_MASK == 4095
\* the mask 0777 of mkfifo() and mknod()
RWX_MASK == 511

-----------------------------------------------------------------------------
(* Bit arithmetic *)

RECURSIVE BitAnd(_, _)
BitAnd(a, b) ==
    IF a = 0 \/ b = 0 THEN 0
    ELSE (a % 2) * (b % 2) + 2 * BitAnd(a \div 2, b \div 2)

Min(a, b) == IF a < b THEN a ELSE b

-----------------------------------------------------------------------------
(* File content: len bytes, all zero except at the positions in marks.     *)
(* The bytes handed to hashlib.md5().update() are accumulated in the same  *)
(* form: MD5 is taken to be collision free, so two digests are equal iff   *)
(* the byte strings fed to them are equal.                                 *)

Bytes(n, m) == [len |-> n, marks |-> m]

EmptyBytes == Bytes(0, {})

\* f.read(IO_SIZE) at offset pos: at most IO_SIZE bytes, empty at end of file
Read(c, pos) ==
    LET n == IF pos >= c.len THEN 0 ELSE Min(IO_SIZE, c.len - pos)
    IN  Bytes(n, {m - pos : m \in {x \in c.marks : x >= pos /\ x < pos + n}})

\* sum.update(data): the digest now covers the bytes so far followed by data
Update(sum, data) ==
    Bytes(sum.len + data.len, sum.marks \cup {m + sum.len : m \in data.marks})

-----------------------------------------------------------------------------
(* Filesystem entries *)

HandlerTypes == {"File", "Dir", "Link", "Fifo", "Chr", "Blk"}

Entry(t, c, tg, mj, mn, em, u, g, md, at, mt) ==
    [type |-> t, content |-> c, target |-> tg, major |-> mj, minor |-> mn,
     empty |-> em, uid |-> u, gid |-> g, mode |-> md, atime |-> at,
     mtime |-> mt]

NoEntry == Entry("None", EmptyBytes, "", 0, 0, TRUE, 0, 0, 0, 0, 0)

Exists(e) == e.type # "None"


\* the permission bits of a file made by open(..., 'wb') before copymode
DefaultFileMode == 6 * 64 + 6 * 8 + 6

\* "Linux does not have lchmod: its symlinks are always mode 0777"
SymlinkMode == RWX_MASK

\* the time stamp of an entry made during the run (later than any in Init)
NowTime == 4 + 5

NewEntry(t, md) == Entry(t, EmptyBytes, "", 0, 0, TRUE, 0, 0, md, NowTime, NowTime)

-----------------------------------------------------------------------------
(* synctool.syncstat.SyncStat: the cached lstat() of one path *)

SyncStat(e) ==
    [exists |-> Exists(e), type |-> e.type, mode |-> e.mode, uid |-> e.uid,
     gid |-> e.gid,
     size |-> IF e.type = "File" THEN e.content.len
              ELSE IF e.type = "None" THEN -1 ELSE 0]

NoStat == SyncStat(NoEntry)

-----------------------------------------------------------------------------
(* The run of one operation.  st carries the filesystem at the destination *)
(* and what was observed: calls (methods entered, in order), events        *)
(* (stdout / terse / log lines), tried and failed (leaf calls), raised     *)
(* (an exception left the operation).  cfg carries the run configuration   *)
(* and F, the leaf calls that fail if attempted.                           *)

Start(d, s, p) ==
    [dest |-> d, saved |-> s, parent |-> p, calls |-> << >>, events |-> {},
     tried |-> {}, failed |-> {}, raised |-> FALSE]

Config(dry, backup, lchown, lchmod, umask, F) ==
    [dry |-> dry, backup |-> backup, lchown |-> lchown, lchmod |-> lchmod,
     umask |-> umask, F |-> F]

\* the mode an entry gets from open(), os.mkdir(), os.mkfifo() or
\* os.mknod() called with mode: the bits of the umask are cleared
Masked(mode, cfg) == mode - BitAnd(mode, cfg.umask)

Call(st, name) == [st EXCEPT !.calls = Append(@, name)]
Emit(st, ev) == [st EXCEPT !.events = @ \cup ev]
Try(st, leaf) == [st EXCEPT !.tried = @ \cup {leaf}]
Failed(st, leaf) == [st EXCEPT !.tried = @ \cup {leaf}, !.failed = @ \cup {leaf}]
Raise(st) == [st EXCEPT !.raised = TRUE]

(* Leaf calls: what the operating system does *)

\* os.unlink(name): EISDIR / EPERM on a directory, ENOENT when missing
os_unlink_ok(st, cfg) ==
    /\ "unlink" \notin cfg.F
    /\ st.dest.type \notin {"None", "Dir"}

\* os.rmdir(name): ENOTDIR on a non-directory, ENOTEMPTY when not empty
os_rmdir_ok(st, cfg) ==
    /\ "rmdir" \notin cfg.F
    /\ st.dest.type = "Dir"
    /\ st.dest.empty

\* os.rename(name, name.saved): replaces a file by a non-directory and an
\* empty directory by a directory, fails otherwise
os_rename_ok(st, cfg) ==
    /\ "rename" \notin cfg.F
    /\ Exists(st.dest)
    /\ \/ ~Exists(st.saved)
       \/ st.dest.type = "Dir" /\ st.saved.type = "Dir" /\ st.saved.empty
       \/ st.dest.type # "Dir" /\ st.saved.type # "Dir"

\* os.mkdir / os.symlink / os.mkfifo / os.mknod: EEXIST, ENOENT
os_make_ok(st, cfg) ==
    /\ "create" \notin cfg.F
    /\ st.parent
    /\ ~Exists(st.dest)

\* os.path.exists(name) follows a symbolic link
os_path_exists(st, cfg) ==
    IF st.dest.type = "Link" THEN "dangling" \notin cfg.F
    ELSE Exists(st.dest)

-----------------------------------------------------------------------------
(* class VNode *)

move_saved(st, cfg) ==
    LET s1 == Call(st, "move_saved")
    IN  IF cfg.dry THEN s1
        ELSE IF os_rename_ok(s1, cfg)
             THEN [Try(s1, "rename") EXCEPT !.saved = s1.dest, !.dest = NoEntry]
             ELSE Emit(Failed(s1, "rename"), {"terse_fail"})

VNode_harddelete(st, cfg) ==
    LET s1 == Emit(Call(st, "harddelete"), {"stdout_deleting", "terse_delete"})
    IN  IF cfg.dry THEN s1
        ELSE IF os_unlink_ok(s1, cfg)
             THEN Emit([Try(s1, "unlink") EXCEPT !.dest = NoEntry], {"log_deleted"})
             ELSE Emit(Failed(s1, "unlink"), {"terse_fail"})

\* a faulty variant: quiet_delete() without the DRY_RUN test
quiet_delete_ignoring_dry_run(st, cfg) ==
    LET s1 == Call(st, "quiet_delete")
    IN  IF ~cfg.backup
        THEN IF os_unlink_ok(s1, cfg)
             THEN [Try(s1, "unlink") EXCEPT !.dest = NoEntry]
             ELSE Failed(s1, "unlink")
        ELSE s1

VNode_quiet_delete(st, cfg) ==
    LET s1 == Call(st, "quiet_delete")
    IN  IF ~cfg.dry /\ ~cfg.backup
        THEN IF os_unlink_ok(s1, cfg)
             THEN [Try(s1, "unlink") EXCEPT !.dest = NoEntry]
             ELSE Failed(s1, "unlink")
        ELSE s1

\* synctool.lib.mkdir_p(basedir): nothing to do when the directory exists
mkdir_p(st, cfg) ==
    IF st.parent THEN st
    ELSE IF "mkdir_p" \in cfg.F THEN Failed(st, "mkdir_p")
         ELSE [Try(st, "mkdir_p") EXCEPT !.parent = TRUE]

mkdir_basepath(st, cfg) ==
    LET s1 == Call(st, "mkdir_basepath")
    IN  IF cfg.dry THEN s1 ELSE mkdir_p(s1, cfg)

\* a faulty variant: os.chown(name, uid, -1), which leaves
\* the group as it is
os_chown_uid_only(st, cfg, vn) ==
    IF "chown" \in cfg.F \/ ~Exists(st.dest)
    THEN Emit(Failed(st, "chown"), {"terse_fail"})
    ELSE IF st.dest.type = "Link" THEN Try(st, "chown")
         ELSE [Try(st, "chown") EXCEPT !.dest.uid = vn.stat.uid]

\* os.chown(name, uid, gid) follows a symbolic link: the link itself keeps
\* its owner
os_chown(st, cfg, vn) ==
    IF "chown" \in cfg.F \/ ~Exists(st.dest)
    THEN Emit(Failed(st, "chown"), {"terse_fail"})
    ELSE IF st.dest.type = "Link" THEN Try(st, "chown")
         ELSE [Try(st, "chown") EXCEPT !.dest.uid = vn.stat.uid,
                                       !.dest.gid = vn.stat.gid]

VNode_set_owner(st, cfg, vn) ==
    LET s1 == Call(st, "set_owner")
    IN  IF cfg.dry THEN s1 ELSE os_chown(s1, cfg, vn)

\* os.chmod(name, mode & 07777) follows a symbolic link
os_chmod(st, cfg, vn) ==
    IF "chmod" \in cfg.F \/ ~Exists(st.dest)
    THEN Emit(Failed(st, "chmod"), {"terse_fail"})
    ELSE IF st.dest.type = "Link" THEN Try(st, "chmod")
         ELSE [Try(st, "chmod") EXCEPT !.dest.mode = BitAnd(vn.stat.mode, PERM_MASK)]

\* a faulty variant: the parent directory chain is made before the mode
\* is set
set_permissions_making_parent(st, cfg, vn) ==
    LET s1 == mkdir_basepath(Call(st, "set_permissions"), cfg)
    IN  IF cfg.dry THEN s1 ELSE os_chmod(s1, cfg, vn)

VNode_set_permissions(st, cfg, vn) ==
    LET s1 == Call(st, "set_permissions")
    IN  IF cfg.dry THEN s1 ELSE os_chmod(s1, cfg, vn)

\* os.utime(name, (atime, mtime)) follows a symbolic link: the link itself
\* keeps its times
set_times(st, cfg, atime, mtime) ==
    LET s1 == Call(st, "set_times")
    IN  IF cfg.dry THEN s1
        ELSE IF "utime" \in cfg.F \/ ~Exists(s1.dest)
             THEN Emit(Failed(s1, "utime"), {"terse_fail"})
             ELSE IF s1.dest.type = "Link" THEN Try(s1, "utime")
                  ELSE [Try(s1, "utime") EXCEPT !.dest.atime = atime,
                                                !.dest.mtime = mtime]

-----------------------------------------------------------------------------
(* The handler object: kind is the class (VNodeFile, ...; "None" when       *)
(* vnode_obj() returned None), stat the source's snapshot, exists the flag  *)
(* of the constructor, oldpath the link target read from the source, and   *)
(* major, minor, st_mode the os.stat() of a device source.                 *)

VNodeOf(kind, statbuf, exists, oldpath, major, minor, st_mode) ==
    [kind |-> kind, stat |-> statbuf, exists |-> exists, oldpath |-> oldpath,
     major |-> major, minor |-> minor, st_mode |-> st_mode]

Ret(st, b) == [st |-> st, ret |-> b]

\* VNode.compare(): Dir and Fifo are never content-compared
VNode_compare(st) == Ret(st, TRUE)

-----------------------------------------------------------------------------
(* class VNodeFile *)

\* open(path, 'rb') succeeds on a regular file
open_ok(e, leaf, cfg) == leaf \notin cfg.F /\ e.type = "File"

\* a faulty variant: a loop that stops after the first
\* block of each file
checksum_first_block(c1, c2, sum1, sum2, ended, cfg) ==
    IF "read_src" \in cfg.F
    THEN [sum1 |-> sum1, sum2 |-> sum2, err |-> "src"]
    ELSE IF "read_dest" \in cfg.F
    THEN [sum1 |-> Update(sum1, Read(c1, 0)), sum2 |-> sum2, err |-> "dest"]
    ELSE [sum1 |-> Update(sum1, Read(c1, 0)),
          sum2 |-> Update(sum2, Read(c2, 0)), err |-> "none"]

\* the while loop of _compare_checksums(): [sum1, sum2, err]; err is "src"
\* or "dest" when a read raised IOError
RECURSIVE checksum_loop(_, _, _, _, _, _)
checksum_loop(c1, c2, sum1, sum2, ended, cfg) ==
    IF ended \/ sum1 # sum2 THEN [sum1 |-> sum1, sum2 |-> sum2, err |-> "none"]
    ELSE IF "read_src" \in cfg.F
         THEN [sum1 |-> sum1, sum2 |-> sum2, err |-> "src"]
    ELSE LET data1 == Read(c1, sum1.len)
             s1 == IF data1.len = 0 THEN sum1 ELSE Update(sum1, data1)
         IN  IF "read_dest" \in cfg.F
             THEN [sum1 |-> s1, sum2 |-> sum2, err |-> "dest"]
             ELSE LET data2 == Read(c2, sum2.len)
                      s2 == IF data2.len = 0 THEN sum2 ELSE Update(sum2, data2)
                  IN  checksum_loop(c1, c2, s1, s2,
                                    data1.len = 0 \/ data2.len = 0, cfg)

\* a faulty variant: an error on the destination is treated as an error
\* on the source is (equal)
compare_checksums_lenient(st, cfg, srcE) ==
    IF ~open_ok(srcE, "open_src", cfg)
    THEN Ret(Failed(st, "open_src"), TRUE)
    ELSE IF ~open_ok(st.dest, "open_dest", cfg)
    THEN Ret(Failed(Try(st, "open_src"), "open_dest"), TRUE)
    ELSE LET s0 == Try(Try(st, "open_src"), "open_dest")
             r == checksum_loop(srcE.content, s0.dest.content,
                                EmptyBytes, EmptyBytes, FALSE, cfg)
         IN  IF r.err = "src" THEN Ret(Failed(s0, "read_src"), FALSE)
             ELSE IF r.err = "dest"
             THEN Ret(Failed(Try(s0, "read_src"), "read_dest"), TRUE)
             ELSE Ret(Try(Try(s0, "read_src"), "read_dest"), r.sum1 = r.sum2)

compare_checksums(st, cfg, srcE) ==
    IF ~open_ok(srcE, "open_src", cfg)
    THEN \* return True because we can't fix an error in src_path
         Ret(Failed(st, "open_src"), TRUE)
    ELSE IF ~open_ok(st.dest, "open_dest", cfg)
    THEN Ret(Failed(Try(st, "open_src"), "open_dest"), FALSE)
    ELSE LET s0 == Try(Try(st, "open_src"), "open_dest")
             r == checksum_loop(srcE.content, s0.dest.content,
                                EmptyBytes, EmptyBytes, FALSE, cfg)
         IN  IF r.err = "src" THEN Ret(Failed(s0, "read_src"), FALSE)
             ELSE IF r.err = "dest"
             THEN Ret(Failed(Try(s0, "read_src"), "read_dest"), FALSE)
             ELSE LET s1 == Try(Try(s0, "read_src"), "read_dest")
                  IN  IF r.sum1 # r.sum2
                      THEN Ret(Emit(s1, {"terse_sync"}), FALSE)
                      ELSE Ret(s1, TRUE)

\* a faulty variant: compare() without the test of the sizes
compare_without_size_test(st, cfg, vn, srcE, dstat) ==
    compare_checksums(st, cfg, srcE)

VNodeFile_compare(st, cfg, vn, srcE, dstat) ==
    IF vn.stat.size # dstat.size
    THEN Ret(Emit(st, {"terse_sync"}), FALSE)
    ELSE compare_checksums(st, cfg, srcE)

\* shutil.copy(src_path, name): copyfile() then copymode().  copyfile()
\* raises IOError when a file cannot be opened, SpecialFileError (not an
\* IOError) when a path is a named pipe; it writes into an existing
\* directory, through an existing link and into an existing device.
\* copymode() is an os.chmod(): its OSError is not an IOError.
shutil_copy(st, cfg, srcE) ==
    IF srcE.type = "Fifo" \/ st.dest.type = "Fifo" THEN Raise(Failed(st, "copy"))
    ELSE IF "copy" \in cfg.F \/ srcE.type # "File" \/ ~st.parent
    THEN Emit(Failed(st, "copy"), {"terse_fail"})
    ELSE LET s1 == Try(st, "copy")
             s2 == CASE s1.dest.type = "None" ->
                          [s1 EXCEPT !.dest = [NewEntry("File", Masked(DefaultFileMode, cfg))
                                               EXCEPT !.content = srcE.content]]
                    []  s1.dest.type = "File" ->
                          [s1 EXCEPT !.dest.content = srcE.content,
                                     !.dest.mtime = NowTime]
                    []  s1.dest.type = "Dir" ->
                          [s1 EXCEPT !.dest.empty = FALSE, !.dest.mtime = NowTime]
                    []  OTHER -> s1
         IN  IF "copymode" \in cfg.F THEN Raise(Failed(s2, "copymode"))
             ELSE IF s2.dest.type = "File"
                  THEN [Try(s2, "copymode")
                        EXCEPT !.dest.mode = BitAnd(srcE.mode, PERM_MASK)]
                  ELSE Try(s2, "copymode")

VNodeFile_create(st, cfg, vn, srcE) ==
    LET s1 == Emit(Call(st, "create"),
                   IF vn.exists THEN {} ELSE {"terse_new"})
    IN  IF cfg.dry THEN s1 ELSE shutil_copy(s1, cfg, srcE)

-----------------------------------------------------------------------------
(* class VNodeDir *)

\* a faulty variant: without the test of os.path.exists(), the directory
\* is made again
VNodeDir_create_without_exists_test(st, cfg, vn) ==
    LET s2 == Emit(Call(st, "create"), {"terse_mkdir"})
    IN  IF cfg.dry THEN s2
        ELSE IF os_make_ok(s2, cfg)
             THEN [Try(s2, "create") EXCEPT !.dest =
                      NewEntry("Dir", Masked(BitAnd(vn.stat.mode, PERM_MASK), cfg))]
             ELSE Emit(Failed(s2, "create"), {"terse_fail"})

VNodeDir_create(st, cfg, vn) ==
    LET s0 == Call(st, "create")
        s1 == IF s0.dest.type = "Link" THEN Try(s0, "dangling") ELSE s0
    IN  IF os_path_exists(s1, cfg) THEN s1
        ELSE LET s2 == Emit(s1, {"terse_mkdir"})
             IN  IF cfg.dry THEN s2
                 ELSE IF os_make_ok(s2, cfg)
                      THEN [Try(s2, "create") EXCEPT !.dest =
                               NewEntry("Dir", Masked(BitAnd(vn.stat.mode, PERM_MASK), cfg))]
                      ELSE Emit(Failed(s2, "create"), {"terse_fail"})

VNodeDir_harddelete(st, cfg) ==
    LET s1 == Emit(Call(st, "harddelete"), {"stdout_deleting", "terse_delete"})
    IN  IF ~cfg.dry /\ ~cfg.backup
        THEN IF os_rmdir_ok(s1, cfg)
             THEN [Try(s1, "rmdir") EXCEPT !.dest = NoEntry]
             ELSE move_saved(Failed(s1, "rmdir"), cfg)
        ELSE s1

VNodeDir_quiet_delete(st, cfg) ==
    LET s1 == Call(st, "quiet_delete")
    IN  IF ~cfg.dry /\ ~cfg.backup
        THEN IF os_rmdir_ok(s1, cfg)
             THEN [Try(s1, "rmdir") EXCEPT !.dest = NoEntry]
             ELSE move_saved(Failed(s1, "rmdir"), cfg)
        ELSE s1

-----------------------------------------------------------------------------
(* class VNodeLink *)

VNodeLink_compare(st, cfg, vn) ==
    IF ~vn.exists THEN Ret(st, FALSE)
    ELSE IF "readlink_dest" \in cfg.F \/ st.dest.type # "Link"
    THEN Ret(Failed(st, "readlink_dest"), FALSE)
    ELSE IF vn.oldpath # st.dest.target
    THEN Ret(Emit(Try(st, "readlink_dest"), {"terse_link"}), FALSE)
    ELSE Ret(Try(st, "readlink_dest"), TRUE)

VNodeLink_create(st, cfg, vn) ==
    LET s1 == Emit(Call(st, "create"), {"terse_link"})
    IN  IF cfg.dry THEN s1
        ELSE IF os_make_ok(s1, cfg)
             THEN [Try(s1, "create") EXCEPT !.dest =
                      [NewEntry("Link", SymlinkMode) EXCEPT !.target = vn.oldpath]]
             ELSE Emit(Failed(s1, "create"), {"terse_fail"})

\* os.lchown(name, uid, gid) changes the entry itself
VNodeLink_set_owner(st, cfg, vn) ==
    LET s1 == Call(st, "set_owner")
    IN  IF ~cfg.lchown THEN s1
        ELSE IF cfg.dry THEN s1
             ELSE IF "chown" \in cfg.F \/ ~Exists(s1.dest)
                  THEN Emit(Failed(s1, "chown"), {"terse_fail"})
                  ELSE [Try(s1, "chown") EXCEPT !.dest.uid = vn.stat.uid,
                                                !.dest.gid = vn.stat.gid]

\* os.lchmod(name, mode & 07777) changes the entry itself
VNodeLink_set_permissions(st, cfg, vn) ==
    LET s1 == Call(st, "set_permissions")
    IN  IF ~cfg.lchmod THEN s1
        ELSE IF cfg.dry THEN s1
             ELSE IF "chmod" \in cfg.F \/ ~Exists(s1.dest)
                  THEN Emit(Failed(s1, "chmod"), {"terse_fail"})
                  ELSE [Try(s1, "chmod") EXCEPT !.dest.mode =
                                                  BitAnd(vn.stat.mode, PERM_MASK)]

-----------------------------------------------------------------------------
(* class VNodeFifo *)

VNodeFifo_create(st, cfg, vn) ==
    LET s1 == Emit(Call(st, "create"), {"terse_new"})
    IN  IF cfg.dry THEN s1
        ELSE IF os_make_ok(s1, cfg)
             THEN [Try(s1, "create") EXCEPT !.dest =
                      NewEntry("Fifo",
                               Masked(BitAnd(vn.stat.mode, RWX_MASK), cfg))]
             ELSE Emit(Failed(s1, "create"), {"terse_fail"})

-----------------------------------------------------------------------------
(* class VNodeChrDev, class VNodeBlkDev *)

\* a faulty variant: the os.lstat(name) outside the try
compare_lstat_unguarded(st, cfg, vn) ==
    IF ~vn.exists THEN Ret(st, FALSE)
    ELSE IF "lstat_dest" \in cfg.F \/ ~Exists(st.dest)
    THEN Ret(Raise(Failed(st, "lstat_dest")), FALSE)
    ELSE IF vn.major # st.dest.major \/ vn.minor # st.dest.minor
    THEN Ret(Emit(Try(st, "lstat_dest"), {"terse_sync"}), FALSE)
    ELSE Ret(Try(st, "lstat_dest"), TRUE)

\* the fresh os.lstat(name) and the comparison of major and minor
VNodeChrDev_compare(st, cfg, vn) ==
    IF ~vn.exists THEN Ret(st, FALSE)
    ELSE IF "lstat_dest" \in cfg.F \/ ~Exists(st.dest)
    THEN Ret(Failed(st, "lstat_dest"), FALSE)
    ELSE IF vn.major # st.dest.major \/ vn.minor # st.dest.minor
    THEN Ret(Emit(Try(st, "lstat_dest"), {"terse_sync"}), FALSE)
    ELSE Ret(Try(st, "lstat_dest"), TRUE)

\* a faulty variant: the major numbers are not compared
compare_minor_only(st, cfg, vn) ==
    IF ~vn.exists THEN Ret(st, FALSE)
    ELSE IF "lstat_dest" \in cfg.F \/ ~Exists(st.dest)
    THEN Ret(Failed(st, "lstat_dest"), FALSE)
    ELSE IF vn.minor # st.dest.minor
    THEN Ret(Emit(Try(st, "lstat_dest"), {"terse_sync"}), FALSE)
    ELSE Ret(Try(st, "lstat_dest"), TRUE)

VNodeBlkDev_compare(st, cfg, vn) ==
    IF ~vn.exists THEN Ret(st, FALSE)
    ELSE IF "lstat_dest" \in cfg.F \/ ~Exists(st.dest)
    THEN Ret(Failed(st, "lstat_dest"), FALSE)
    ELSE IF vn.major # st.dest.major \/ vn.minor # st.dest.minor
    THEN Ret(Emit(Try(st, "lstat_dest"), {"terse_sync"}), FALSE)
    ELSE Ret(Try(st, "lstat_dest"), TRUE)

\* os.mknod(name, (st_mode & 0777) | S_IFCHR or S_IFBLK, makedev(major, minor))
mknod(st, cfg, vn, t) ==
    LET s1 == Emit(Call(st, "create"), {"terse_new"})
    IN  IF cfg.dry THEN s1
        ELSE IF os_make_ok(s1, cfg)
             THEN [Try(s1, "create") EXCEPT !.dest =
                      [NewEntry(t, Masked(BitAnd(vn.st_mode, RWX_MASK), cfg))
                       EXCEPT !.major = vn.major, !.minor = vn.minor]]
             ELSE Emit(Failed(s1, "create"), {"terse_fail"})

VNodeChrDev_create(st, cfg, vn) == mknod(st, cfg, vn, "Chr")

VNodeBlkDev_create(st, cfg, vn) == mknod(st, cfg, vn, "Blk")

-----------------------------------------------------------------------------
(* Method dispatch on the handler's class *)

compare(st, cfg, vn, srcE, dstat) ==
    CASE vn.kind = "File" -> VNodeFile_compare(st, cfg, vn, srcE, dstat)
    []   vn.kind = "Link" -> VNodeLink_compare(st, cfg, vn)
    []   vn.kind = "Chr"  -> VNodeChrDev_compare(st, cfg, vn)
    []   vn.kind = "Blk"  -> VNodeBlkDev_compare(st, cfg, vn)
    []   OTHER            -> VNode_compare(st)

create(st, cfg, vn, srcE) ==
    CASE vn.kind = "File" -> VNodeFile_create(st, cfg, vn, srcE)
    []   vn.kind = "Dir"  -> VNodeDir_create(st, cfg, vn)
    []   vn.kind = "Link" -> VNodeLink_create(st, cfg, vn)
    []   vn.kind = "Fifo" -> VNodeFifo_create(st, cfg, vn)
    []   vn.kind = "Chr"  -> VNodeChrDev_create(st, cfg, vn)
    []   vn.kind = "Blk"  -> VNodeBlkDev_create(st, cfg, vn)

quiet_delete(st, cfg, vn) ==
    IF vn.kind = "Dir" THEN VNodeDir_quiet_delete(st, cfg)
    ELSE VNode_quiet_delete(st, cfg)

harddelete(st, cfg, vn) ==
    IF vn.kind = "Dir" THEN VNodeDir_harddelete(st, cfg)
    ELSE VNode_harddelete(st, cfg)

set_owner(st, cfg, vn) ==
    IF vn.kind = "Link" THEN VNodeLink_set_owner(st, cfg, vn)
    ELSE VNode_set_owner(st, cfg, vn)

set_permissions(st, cfg, vn) ==
    IF vn.kind = "Link" THEN VNodeLink_set_permissions(st, cfg, vn)
    ELSE VNode_set_permissions(st, cfg, vn)

\* a statement after an exception has left the method does not run
Then(st, next(_)) == IF st.raised THEN st ELSE next(st)

\* a faulty variant: fix() that leaves the owner of what it made alone
fix_without_set_owner(st, cfg, vn, srcE) ==
    LET s0 == Call(st, "fix")
        s1 == IF vn.exists
              THEN IF cfg.backup THEN move_saved(s0, cfg)
                   ELSE quiet_delete(s0, cfg, vn)
              ELSE s0
        s2 == mkdir_basepath(s1, cfg)
        s3 == create(s2, cfg, vn, srcE)
        DoPerm(s) == set_permissions(s, cfg, vn)
    IN  Then(s3, DoPerm)

\* VNode.fix()
fix(st, cfg, vn, srcE) ==
    LET s0 == Call(st, "fix")
        s1 == IF vn.exists
              THEN IF cfg.backup THEN move_saved(s0, cfg)
                   ELSE quiet_delete(s0, cfg, vn)
              ELSE s0
        s2 == mkdir_basepath(s1, cfg)
        \* observed: an entry is at the destination when create() is called
        s3 == create(IF Exists(s2.dest) THEN Emit(s2, {"create_over_entry"})
                     ELSE s2, cfg, vn, srcE)
        DoOwner(s) == set_owner(s, cfg, vn)
        DoPerm(s) == set_permissions(s, cfg, vn)
    IN  Then(Then(s3, DoOwner), DoPerm)

-----------------------------------------------------------------------------
(* class SyncObject *)

Sel(vn, st) == [vn |-> vn, st |-> st]

NoVNode(sstat, exists) == VNodeOf("None", sstat, exists, "", 0, 0, 0)

\* the chain of is_file() ... is_blockdev() tests of vnode_obj() and
\* vnode_dest_obj(): disc is the snapshot that chooses the class.
\* os.readlink(src_path) fails with EINVAL when the source is no link;
\* the OSError of os.stat(src_path) is not caught.
vnode_by(disc, st, cfg, sstat, dstat, srcE) ==
    LET exists == dstat.exists
        plain(k) == Sel(VNodeOf(k, sstat, exists, "", 0, 0, 0), st)
    IN  CASE disc.type = "File" -> plain("File")
        []   disc.type = "Dir"  -> plain("Dir")
        []   disc.type = "Link" ->
               IF "readlink_src" \in cfg.F \/ srcE.type # "Link"
               THEN Sel(NoVNode(sstat, exists),
                        Emit(Failed(st, "readlink_src"), {"terse_fail"}))
               ELSE Sel(VNodeOf("Link", sstat, exists, srcE.target, 0, 0, 0),
                        Try(st, "readlink_src"))
        []   disc.type = "Fifo" -> plain("Fifo")
        []   disc.type \in {"Chr", "Blk"} ->
               IF "stat_src" \in cfg.F
               THEN Sel(NoVNode(sstat, exists), Raise(Failed(st, "stat_src")))
               ELSE Sel(VNodeOf(disc.type, sstat, exists, "", srcE.major,
                                srcE.minor, srcE.mode),
                        Try(st, "stat_src"))
        []   OTHER -> Sel(NoVNode(sstat, exists), st)

vnode_obj(st, cfg, sstat, dstat, srcE) ==
    vnode_by(sstat, st, cfg, sstat, dstat, srcE)

vnode_dest_obj(st, cfg, sstat, dstat, srcE) ==
    vnode_by(dstat, st, cfg, sstat, dstat, srcE)

\* a method called on None raises AttributeError
OnVNode(sel, method(_, _)) ==
    IF sel.st.raised THEN sel.st
    ELSE IF sel.vn.kind = "None" THEN Raise(sel.st)
    ELSE method(sel.st, sel.vn)

Result(st, updated, meta) ==
    [st |-> st, updated |-> updated /\ ~st.raised, meta |-> meta /\ ~st.raised]

\* a faulty variant: the mode is looked at only when the
\* owner is right (elif)
check_meta_owner_first(st, cfg, vn, sstat, dstat) ==
    LET own == sstat.uid # dstat.uid \/ sstat.gid # dstat.gid
        md == sstat.mode # dstat.mode
    IN  IF own
        THEN Result(set_owner(Emit(st, {"terse_owner", "log_set_owner"}), cfg, vn),
                    FALSE, TRUE)
        ELSE IF md
        THEN Result(set_permissions(Emit(st, {"terse_mode", "log_set_mode"}),
                                    cfg, vn),
                    FALSE, TRUE)
        ELSE Result(st, FALSE, FALSE)

\* a faulty variant: a change of owner or mode is reported as an update
\* too
check_meta_reports_update(st, cfg, vn, sstat, dstat) ==
    LET own == sstat.uid # dstat.uid \/ sstat.gid # dstat.gid
        s1 == IF own
              THEN set_owner(Emit(st, {"terse_owner", "log_set_owner"}), cfg, vn)
              ELSE st
        md == sstat.mode # dstat.mode
        s2 == IF md
              THEN set_permissions(Emit(s1, {"terse_mode", "log_set_mode"}),
                                   cfg, vn)
              ELSE s1
    IN  Result(s2, own \/ md, own \/ md)

\* the ownership and permission part of check()
check_meta(st, cfg, vn, sstat, dstat) ==
    LET own == sstat.uid # dstat.uid \/ sstat.gid # dstat.gid
        s1 == IF own
              THEN set_owner(Emit(st, {"terse_owner", "log_set_owner"}), cfg, vn)
              ELSE st
        md == sstat.mode # dstat.mode
        s2 == IF md
              THEN set_permissions(Emit(s1, {"terse_mode", "log_set_mode"}),
                                   cfg, vn)
              ELSE s1
    IN  Result(s2, FALSE, own \/ md)

check(st, cfg, sstat, dstat, srcE) ==
    LET DoFix(s, vn) == fix(s, cfg, vn, srcE)
    IN  IF ~dstat.exists
        THEN Result(OnVNode(vnode_obj(Emit(st, {"log_creating"}), cfg, sstat,
                                      dstat, srcE), DoFix),
                    TRUE, FALSE)
        ELSE IF sstat.type # dstat.type
        THEN LET Warn(s, vn) ==
                     DoFix(Emit(s, {"terse_warning", "log_fix_type"}), vn)
             IN  Result(OnVNode(vnode_obj(st, cfg, sstat, dstat, srcE), Warn),
                        TRUE, FALSE)
        ELSE LET sel == vnode_obj(st, cfg, sstat, dstat, srcE)
             IN  IF sel.st.raised \/ sel.vn.kind = "None"
                 THEN Result(Raise(sel.st), FALSE, FALSE)
                 ELSE LET c == compare(Call(sel.st, "compare"), cfg, sel.vn,
                                       srcE, dstat)
                      IN  IF ~c.ret
                          THEN Result(DoFix(Emit(c.st, {"log_updating"}), sel.vn),
                                      TRUE, FALSE)
                          ELSE check_meta(c.st, cfg, sel.vn, sstat, dstat)

\* check_purge_timestamp(): updated is the returned boolean
check_purge_timestamp(st, cfg, sstat, dstat, srcE) ==
    IF "lstat_src" \in cfg.F \/ ~Exists(srcE)
    THEN Result(Failed(st, "lstat_src"), FALSE, FALSE)
    ELSE IF "lstat_dest" \in cfg.F \/ ~Exists(st.dest)
    THEN Result(Failed(Try(st, "lstat_src"), "lstat_dest"), FALSE, FALSE)
    ELSE LET s1 == Try(Try(st, "lstat_src"), "lstat_dest")
             Touch(s, vn) == set_times(s, cfg, srcE.atime, srcE.mtime)
         IN  IF srcE.mtime > s1.dest.mtime
             THEN Result(OnVNode(vnode_obj(Emit(s1, {"terse_warning"}), cfg,
                                           sstat, dstat, srcE), Touch),
                         FALSE, FALSE)
             ELSE Result(s1, TRUE, FALSE)

-----------------------------------------------------------------------------
(* The inputs *)

Mode0644 == 6 * 64 + 4 * 8 + 4
Mode4755 == 4 * 512 + 7 * 64 + 5 * 8 + 5
Modes == {Mode0644, Mode4755}
Targets == {"/bin/bash", "/bin/sh"}
\* the source's numbers, another minor, another major
Devs == {<<1, 3>>, <<1, 5>>, <<8, 3>>}

\* same size and equal, same size and different, different size
TextA == Bytes(6, {})
TextB == Bytes(6, {5})
TextC == Bytes(5, {})

\* the shapes an entry of type t can have (owner, mode and times apart)
Shapes(t, contents, empties) ==
    CASE t = "File" -> {Entry(t, c, "", 0, 0, TRUE, 0, 0, 0, 0, 0) : c \in contents}
    []   t = "Dir"  -> {Entry(t, EmptyBytes, "", 0, 0, e, 0, 0, 0, 0, 0) : e \in empties}
    []   t = "Link" -> {Entry(t, EmptyBytes, tg, 0, 0, TRUE, 0, 0, 0, 0, 0) : tg \in Targets}
    []   t \in {"Chr", "Blk"} ->
            {Entry(t, EmptyBytes, "", d[1], d[2], TRUE, 0, 0, 0, 0, 0) : d \in Devs}
    []   OTHER -> {Entry(t, EmptyBytes, "", 0, 0, TRUE, 0, 0, 0, 0, 0)}

\* owner, group and mode
Meta(u, g, m) == [uid |-> u, gid |-> g, mode |-> m]

Dress(shapes, metas, atime, mtimes) ==
    { [e EXCEPT !.uid = md.uid, !.gid = md.gid, !.mode = md.mode,
                !.atime = atime, !.mtime = mt] :
        e \in shapes, md \in metas, mt \in mtimes }

SrcMetas == {Meta(0, 0, Mode0644), Meta(500, 0, Mode4755)}

\* each of owner, group and mode differs from some source's, alone or together
DestMetas ==
    {Meta(0, 0, Mode0644), Meta(500, 0, Mode0644), Meta(0, 500, Mode0644),
     Meta(0, 0, Mode4755)}

\* "Sock": an entry that is none of the six handled types
SrcTypes == HandlerTypes \cup {"Sock"}

\* one shape of each type but the directory, empty or not
Plain(t) ==
    CASE t = "File" -> Shapes(t, {TextA}, {TRUE})
    []   t = "Link" -> {Entry(t, EmptyBytes, "/bin/sh", 0, 0, TRUE, 0, 0, 0, 0, 0)}
    []   t \in {"Chr", "Blk"} -> {Entry(t, EmptyBytes, "", 1, 3, TRUE, 0, 0, 0, 0, 0)}
    []   OTHER -> Shapes(t, {}, BOOLEAN)

\* the sources: a file of each of the contents and one entry of each other
\* type (what a source directory holds is not looked at)
SrcEntries(contents, mtimes) ==
    Dress(Shapes("File", contents, {TRUE})
          \cup {e \in UNION {Plain(t) : t \in SrcTypes \ {"File"}} : e.empty},
          SrcMetas, 3, mtimes)

\* the destinations tried with the source s: none, an entry of every other
\* type, and every shape of the source's type under every DestMetas
DestEntries(s, contents, mtimes) ==
    {NoEntry}
    \cup Dress(UNION {Plain(t) : t \in HandlerTypes \ {s.type}},
               {Meta(500, 500, Mode0644)}, 1, mtimes)
    \cup Dress(Shapes(s.type, contents, BOOLEAN) \ Shapes("Sock", contents, BOOLEAN),
               DestMetas, 1, mtimes)

\* without lchmod a symbolic link always has mode 0777
Platform(e) == IF e.type = "Link" /\ ~HAS_LCHMOD THEN [e EXCEPT !.mode = SymlinkMode] ELSE e

NoLast ==
    [op |-> "none", raised |-> FALSE, updated |-> FALSE, meta |-> FALSE,
     calls |-> << >>, events |-> {}, failed |-> {}, faults |-> {},
     pre |-> [dest |-> NoEntry, saved |-> NoEntry, parent |-> TRUE]]

\* no leaf call was made to fail and no exception left the operation
Clean(l) == l.faults = {} /\ ~l.raised

Brief(l) == [check |-> l.op = "check", clean |-> Clean(l)]

\* a umask that clears no bit of the modes above, and one that does
Umask022 == 2 * 8 + 2
Umask077 == 7 * 8 + 7
Umasks == {Umask022, Umask077}

\* synctool_aggr.aggregate() is not run
NoAggregate == input = << >> /\ printed = << >> /\ aggregated = FALSE

InitWith(srcs, contents, mtimes) ==
    /\ DRY_RUN \in BOOLEAN
    /\ BACKUP_COPIES \in BOOLEAN
    /\ HAS_LCHOWN \in BOOLEAN
    /\ HAS_LCHMOD \in BOOLEAN
    /\ HAS_LCHMOD => HAS_LCHOWN
    /\ \E s \in srcs :
         /\ src = Platform(s)
         /\ \E d \in DestEntries(s, contents, mtimes) : dest = Platform(d)
    \* the platform matters to the handler of a symbolic link alone
    /\ src.type # "Link" => HAS_LCHOWN /\ ~HAS_LCHMOD
    /\ UMASK \in Umasks
    \* the umask matters to os.mkdir(), os.mkfifo() and os.mknod()
    /\ src.type \notin {"Dir", "Fifo", "Chr", "Blk"} => UMASK = Umask022
    /\ saved = NoEntry
    /\ parent \in BOOLEAN
    /\ ~parent => dest = NoEntry
    /\ src_stat = NoStat
    /\ dest_stat = NoStat
    /\ last = NoLast
    /\ prev = Brief(NoLast)
    /\ ops = 0
    /\ used = 0
    /\ NoAggregate

Init == InitWith(SrcEntries({TextA}, {2}), {TextA, TextB, TextC}, {2})

-----------------------------------------------------------------------------
(* The operations *)

\* SyncObject.make(): the two snapshots
make(srcE, destE) == [src_stat |-> SyncStat(srcE), dest_stat |-> SyncStat(destE)]

\* the method m of the handler sel; the result carries no flags
Method(sel, m(_, _)) == Result(OnVNode(sel, m), FALSE, FALSE)

\* the run of the operation op on a fresh SyncObject, from the filesystem
\* fs = [dest, saved, parent], with DRY_RUN = dry, when the leaf calls F
\* fail: check() and check_purge_timestamp() of the SyncObject, the methods
\* of the handler of the source's type, harddelete() of the handler of the
\* destination's type; for compare() and _compare_checksums(), updated is
\* the returned boolean
RunOn(fs, dry, op, F) ==
    LET cfg == Config(dry, BACKUP_COPIES, HAS_LCHOWN, HAS_LCHMOD, UMASK, F)
        s0 == Start(fs.dest, fs.saved, fs.parent)
        sstat == make(src, fs.dest).src_stat
        dstat == make(src, fs.dest).dest_stat
        sel == vnode_obj(s0, cfg, sstat, dstat, src)
        DoFix(s, vn) == fix(s, cfg, vn, src)
        Del(s, vn) == harddelete(s, cfg, vn)
        Own(s, vn) == set_owner(s, cfg, vn)
        Perm(s, vn) == set_permissions(s, cfg, vn)
        Touch(s, vn) == set_times(s, cfg, src.atime, src.mtime)
        Make(s, vn) == create(s, cfg, vn, src)
    IN  CASE op = "check" -> check(s0, cfg, sstat, dstat, src)
        []   op = "create" -> Method(sel, Make)
        []   op = "check_purge_timestamp" ->
                check_purge_timestamp(s0, cfg, sstat, dstat, src)
        []   op = "fix" -> Method(sel, DoFix)
        []   op = "harddelete" ->
                Method(vnode_dest_obj(s0, cfg, sstat, dstat, src), Del)
        []   op = "set_owner" -> Method(sel, Own)
        []   op = "set_permissions" -> Method(sel, Perm)
        []   op = "set_times" -> Method(sel, Touch)
        []   op = "compare" ->
                IF sel.st.raised \/ sel.vn.kind = "None"
                THEN Result(Raise(sel.st), FALSE, FALSE)
                ELSE LET c == compare(Call(sel.st, "compare"), cfg, sel.vn, src,
                                      dstat)
                     IN  Result(c.st, c.ret, FALSE)
        []   op = "_compare_checksums" ->
                IF sel.st.raised \/ sel.vn.kind # "File"
                THEN Result(Raise(sel.st), FALSE, FALSE)
                ELSE LET c == compare_checksums(Call(sel.st, "_compare_checksums"),
                                                cfg, src)
                     IN  Result(c.st, c.ret, FALSE)

\* the filesystem at the destination now
Now == [dest |-> dest, saved |-> saved, parent |-> parent]

\* the sets of at most k leaf calls whose failure the operation op meets
\* from fs, each with the run it gives: a call can only fail in a run that
\* reaches it
RECURSIVE FaultRunsOn(_, _, _, _)
FaultRunsOn(fs, dry, op, k) ==
    IF k = 0 THEN {[F |-> {}, r |-> RunOn(fs, dry, op, {})]}
    ELSE LET P == FaultRunsOn(fs, dry, op, k - 1)
             more == UNION {{p.F \cup {l} : l \in p.r.st.tried \ p.F} : p \in P}
         IN  P \cup {[F |-> F, r |-> RunOn(fs, dry, op, F)] :
                      F \in more \ {p.F : p \in P}}

FaultSetsOn(fs, dry, op, k) == {p.F : p \in FaultRunsOn(fs, dry, op, k)}

FaultRuns(op, k) == FaultRunsOn(Now, DRY_RUN, op, k)

\* one use of a SyncObject: make(), then the operation op
Step(op) ==
    /\ ops < MaxOps
    /\ \E p \in FaultRuns(op, MaxFaults - used) :
         /\ src_stat' = make(src, dest).src_stat
         /\ dest_stat' = make(src, dest).dest_stat
         /\ dest' = p.r.st.dest
         /\ saved' = p.r.st.saved
         /\ parent' = p.r.st.parent
         /\ last' = [op |-> op, raised |-> p.r.st.raised, updated |-> p.r.updated,
                     meta |-> p.r.meta, calls |-> p.r.st.calls,
                     events |-> p.r.st.events, failed |-> p.r.st.failed,
                     faults |-> p.F,
                     pre |-> Now]
         /\ used' = used + Cardinality(p.F)
    /\ prev' = Brief(last)
    /\ ops' = ops + 1
    /\ UNCHANGED << cfgvars, src, aggrvars >>

Check == Step("check")

Fix == Step("fix")

HardDelete == Step("harddelete")

SetOwner == Step("set_owner")

SetPermissions == Step("set_permissions")

SetTimes == Step("set_times")

\* compare() is called as check() calls it: on a destination of the
\* source's type (or on none)
Compare == (Exists(dest) => dest.type = src.type) /\ Step("compare")

CheckPurgeTimestamp == Step("check_purge_timestamp")

\* create() called on its own
Create == Step("create")

Next ==
    \/ Check
    \/ Fix
    \/ HardDelete
    \/ SetOwner
    \/ SetPermissions
    \/ SetTimes
    \/ Compare
    \/ CheckPurgeTimestamp
    \/ Create

Spec == Init /\ [][Next]_vars

-----------------------------------------------------------------------------
(* Comparing regular files: contents of up to MaxBlocks blocks and a byte   *)
(* more, equal or differing in one byte at either end of a block.           *)

\* lengths at and around the multiples of IO_SIZE
BlockLengths ==
    {0, 1} \cup {k * IO_SIZE + d : k \in 1..MaxBlocks, d \in {-1, 0, 1}}

\* the first and the last byte of every block
BlockEdges ==
    {k * IO_SIZE : k \in 0..MaxBlocks} \cup {k * IO_SIZE - 1 : k \in 1..MaxBlocks}

\* all zero, or one byte set
BlockContents ==
    {Bytes(n, {}) : n \in BlockLengths}
    \cup UNION {{Bytes(n, {p}) : p \in {q \in BlockEdges : q < n}} :
                n \in BlockLengths}

FilePair(c1, c2) ==
    /\ src = Entry("File", c1, "", 0, 0, TRUE, 0, 0, Mode0644, 3, 2)
    /\ dest = Entry("File", c2, "", 0, 0, TRUE, 0, 0, Mode0644, 1, 2)

InitCompare ==
    /\ DRY_RUN \in BOOLEAN
    /\ BACKUP_COPIES = FALSE
    /\ HAS_LCHOWN = TRUE
    /\ HAS_LCHMOD = FALSE
    /\ UMASK = Umask022
    /\ \E c1 \in BlockContents, c2 \in BlockContents : FilePair(c1, c2)
    /\ saved = NoEntry
    /\ parent = TRUE
    /\ src_stat = NoStat
    /\ dest_stat = NoStat
    /\ last = NoLast
    /\ prev = Brief(NoLast)
    /\ ops = 0
    /\ used = 0
    /\ NoAggregate

\* VNodeFile._compare_checksums() called on its own: the sizes of the
\* files may differ
CompareChecksums == src.type = "File" /\ Step("_compare_checksums")

NextCompare ==
    \/ Compare
    \/ CompareChecksums

SpecCompare == InitCompare /\ [][NextCompare]_vars

-----------------------------------------------------------------------------
(* Purging: the destination is older than, as old as, or newer than the     *)
(* source.                                                                  *)

DestMTimes == {1, 2, 3}

InitPurge == InitWith(SrcEntries({TextA}, {2}), {TextA}, DestMTimes)

NextPurge ==
    \/ CheckPurgeTimestamp
    \/ SetTimes

SpecPurge == InitPurge /\ [][NextPurge]_vars

-----------------------------------------------------------------------------
(* synctool_aggr.aggregate(): a line of text is the sequence of its         *)
(* characters, less the newline that string.strip() takes off and print     *)
(* writes again.                                                            *)

MaxLines == 4

Whitespace == {" "}

\* ord(c) of the characters that occur
Ord(c) ==
    CASE c = " " -> 32
    []   c = "," -> 44
    []   c = ":" -> 58
    []   c = "a" -> 97
    []   c = "b" -> 98
    []   c = "c" -> 99
    []   c = "w" -> 119
    []   c = "x" -> 120
    []   c = "y" -> 121

\* s < t of two strings
RECURSIVE StrLess(_, _)
StrLess(s, t) ==
    IF t = << >> THEN FALSE
    ELSE IF s = << >> THEN TRUE
    ELSE IF Head(s) = Head(t) THEN StrLess(Tail(s), Tail(t))
    ELSE Ord(Head(s)) < Ord(Head(t))

RECURSIVE lstrip(_)
lstrip(s) ==
    IF s # << >> /\ Head(s) \in Whitespace THEN lstrip(Tail(s)) ELSE s

RECURSIVE rstrip(_)
rstrip(s) ==
    IF s # << >> /\ s[Len(s)] \in Whitespace
    THEN rstrip(SubSeq(s, 1, Len(s) - 1))
    ELSE s

\* string.strip(s): leading and trailing whitespace removed
string_strip(s) == rstrip(lstrip(s))

\* string.split(s, sep)
RECURSIVE string_split(_, _)
string_split(s, sep) ==
    IF \A i \in DOMAIN s : s[i] # sep THEN << s >>
    ELSE LET i == CHOOSE k \in DOMAIN s :
                      s[k] = sep /\ \A j \in 1 .. k - 1 : s[j] # sep
         IN  << SubSeq(s, 1, i - 1) >>
             \o string_split(SubSeq(s, i + 1, Len(s)), sep)

\* string.join(arr, sep)
RECURSIVE string_join(_, _)
string_join(arr, sep) ==
    IF arr = << >> THEN << >>
    ELSE IF Len(arr) = 1 THEN arr[1]
    ELSE arr[1] \o << sep >> \o string_join(Tail(arr), sep)

\* what one print statement writes: a line without ':', the header of a
\* group (with the list of its nodes), a line of a group's output
PlainLine(text) == [kind |-> "line", text |-> text, nodes |-> << >>]
GroupHeader(nodelist) ==
    [kind |-> "header", text |-> string_join(nodelist, ",") \o << ":" >>,
     nodes |-> nodelist]
OutputLine(text) == [kind |-> "output", text |-> text, nodes |-> << >>]

\* output_per_node = {}
EmptyDict == [n \in {} |-> << >>]

\* the loop over the lines: a line without ':' is printed at once, the
\* others are collected in output_per_node
RECURSIVE read_loop(_, _)
read_loop(lines, acc) ==
    IF lines = << >> THEN acc
    ELSE LET line == Head(lines)
             arr == string_split(line, ":")
             node == arr[1]
             output == string_join(Tail(arr), ":")
             d == acc.output_per_node
         IN  IF Len(arr) <= 1
             THEN read_loop(Tail(lines),
                            [acc EXCEPT !.printed = Append(@, PlainLine(line))])
             ELSE read_loop(Tail(lines),
                            [acc EXCEPT !.output_per_node =
                                [n \in DOMAIN d \cup {node} |->
                                    IF n = node
                                    THEN IF node \in DOMAIN d
                                         THEN Append(d[node], output)
                                         ELSE << output >>
                                    ELSE d[n]]])

\* a faulty variant: nodes.sort(reverse=True)
RECURSIVE sort_reversed(_)
sort_reversed(S) ==
    IF S = {} THEN << >>
    ELSE LET m == CHOOSE x \in S : \A y \in S \ {x} : StrLess(y, x)
         IN  << m >> \o sort_reversed(S \ {m})

\* nodes = output_per_node.keys(); nodes.sort()
RECURSIVE sorted_keys(_)
sorted_keys(S) ==
    IF S = {} THEN << >>
    ELSE LET m == CHOOSE x \in S : \A y \in S \ {x} : StrLess(x, y)
         IN  << m >> \o sorted_keys(S \ {m})

\* the elements of the list s that satisfy (keep) or do not satisfy the
\* test of the inner loop: out == output_per_node[node2]
RECURSIVE same_output(_, _, _, _)
same_output(s, d, out, keep) ==
    IF s = << >> THEN << >>
    ELSE IF (d[Head(s)] = out) = keep
    THEN << Head(s) >> \o same_output(Tail(s), d, out, keep)
    ELSE same_output(Tail(s), d, out, keep)

\* while len(nodes) > 0: the first node and every later node with the same
\* output make a group, which is printed and taken out of nodes
RECURSIVE group_loop(_, _, _)
group_loop(nodes, d, done) ==
    IF nodes = << >> THEN done
    ELSE LET node == Head(nodes)
             out == d[node]
             nodelist == << node >> \o same_output(Tail(nodes), d, out, TRUE)
         IN  group_loop(same_output(Tail(nodes), d, out, FALSE), d,
                        done \o << GroupHeader(nodelist) >>
                             \o [i \in 1 .. Len(out) |-> OutputLine(out[i])])

\* aggregate(f), with lines = f.readlines(): what it prints
aggregate(lines) ==
    IF lines = << >> THEN << >>
    ELSE LET stripped == [i \in DOMAIN lines |-> string_strip(lines[i])]
             acc == read_loop(stripped,
                              [printed |-> << >>, output_per_node |-> EmptyDict])
             nodes == sorted_keys(DOMAIN acc.output_per_node)
         IN  IF nodes = << >> THEN acc.printed
             ELSE group_loop(nodes, acc.output_per_node, acc.printed)

\* the lines of the input: three nodes, two outputs, an output with a ':',
\* a line with trailing whitespace, lines without ':'
InputLines ==
    { <<"a", ":", "x">>, <<"a", ":", "y">>, <<"a", ":", "x", ":", "y">>,
      <<"b", ":", "x">>, <<"b", ":", "y">>, <<"b", ":", "x", " ">>,
      <<"c", ":", "x">>,
      <<"w">>, <<" ", "w">> }

Inputs == UNION {[1 .. n -> InputLines] : n \in 0 .. MaxLines}

InitAggr ==
    /\ DRY_RUN = FALSE
    /\ BACKUP_COPIES = FALSE
    /\ HAS_LCHOWN = TRUE
    /\ HAS_LCHMOD = FALSE
    /\ UMASK = Umask022
    /\ src = NoEntry
    /\ dest = NoEntry
    /\ saved = NoEntry
    /\ parent = TRUE
    /\ src_stat = NoStat
    /\ dest_stat = NoStat
    /\ last = NoLast
    /\ prev = Brief(NoLast)
    /\ ops = 0
    /\ used = 0
    /\ input \in Inputs
    /\ printed = << >>
    /\ aggregated = FALSE

Aggregate ==
    /\ ~aggregated
    /\ printed' = aggregate(input)
    /\ aggregated' = TRUE
    /\ UNCHANGED << cfgvars, fsvars, objvars, input >>

NextAggr == Aggregate

SpecAggr == InitAggr /\ [][NextAggr]_vars

-----------------------------------------------------------------------------
(* Properties *)

Range(f) == {f[i] : i \in DOMAIN f}

Called(m) == m \in Range(last.calls)

\* check() returned the pair (u, m)
Returned(u, m) == ~last.raised /\ last.updated = u /\ last.meta = m

\* the last operation left the destination, its .saved sibling and the
\* parent directory as they were
Untouched == Now = last.pre

\* C1: for every source type, a source of unknown type and a source link
\* that cannot be read included, check() on a destination whose snapshot
\* says it does not exist returns exactly (True, False)
C1_MissingDestReturnsTrueFalse ==
    /\ last.op = "check"
    /\ ~dest_stat.exists
    /\ last.faults \subseteq {"readlink_src"}
    => Returned(TRUE, FALSE)

\* C2: for every pair of different source and destination types, both
\* existing, check() returns (True, False) and leaves an entry of the
\* source's type at the destination (read with dry-run off, the source one
\* of the six handled types and no leaf call made to fail)
C2_TypeMismatchConverges ==
    /\ last.op = "check"
    /\ ~DRY_RUN
    /\ last.faults = {}
    /\ src_stat.type \in HandlerTypes
    /\ dest_stat.exists
    /\ src_stat.type # dest_stat.type
    => Returned(TRUE, FALSE) /\ dest.type = src.type

\* C3: with DRY_RUN set no operation changes the destination, its .saved
\* sibling or the parent directory (so no sequence of operations does), and
\* check() returns the pair that it returns with DRY_RUN clear from the same
\* state under the same failures, whenever that run returns: for the
\* check() that has run, and from the starting state (which all later
\* states equal) under every set of failures
C3_DryRunInvariant ==
    DRY_RUN =>
        /\ last.op # "none" => Untouched
        /\ last.op = "check" =>
             LET wet == RunOn(last.pre, FALSE, "check", last.faults)
             IN  ~wet.st.raised =>
                    /\ ~last.raised
                    /\ last.updated = wet.updated
                    /\ last.meta = wet.meta
        /\ last.op = "none" =>
             \A F \in FaultSetsOn(Now, FALSE, "check", MaxFaults) :
               LET wet == RunOn(Now, FALSE, "check", F)
                   dry == RunOn(Now, TRUE, "check", F)
               IN  ~wet.st.raised =>
                      /\ ~dry.st.raised
                      /\ dry.updated = wet.updated
                      /\ dry.meta = wet.meta

\* a dry-run check() that reported a replacement of an existing entry
C3_Witness ==
    /\ DRY_RUN
    /\ last.op = "check"
    /\ Returned(TRUE, FALSE)
    /\ Called("fix")
    /\ Exists(last.pre.dest)
    /\ Untouched

\* C4: a source file that cannot be opened or read compares equal, and
\* check() then neither removes, backs up nor overwrites the destination
C4_UnreadableSourceIsEqual ==
    /\ last.op \in {"compare", "check"}
    /\ src.type = "File"
    /\ last.pre.dest.type = "File"
    /\ last.failed \cap {"open_src", "read_src"} # {}
    => /\ ~last.raised
       /\ last.op = "compare" => last.updated
       /\ last.op = "check" =>
            /\ ~last.updated
            /\ ~Called("fix")
            /\ dest.content = last.pre.dest.content
            /\ saved = last.pre.saved

\* C5: after fix() with exists = true (dry-run off, no leaf call made to
\* fail): with BACKUP_COPIES the entry that was at the destination is at
\* <dest>.saved; without, fix() has made no <dest>.saved
C5_BackupPolicy ==
    /\ Called("fix")
    /\ ~DRY_RUN
    /\ dest_stat.exists
    /\ last.faults = {}
    /\ ~last.raised
    => IF BACKUP_COPIES THEN saved = last.pre.dest ELSE saved = last.pre.saved

\* C6: harddelete() of a directory that is not empty (dry-run off, no leaf
\* call made to fail), under either backup setting, does not raise and
\* leaves the directory renamed to <name>.saved
C6_NonEmptyDirMovedAside ==
    /\ last.op = "harddelete"
    /\ ~DRY_RUN
    /\ last.pre.dest.type = "Dir"
    /\ ~last.pre.dest.empty
    /\ last.faults = {}
    => /\ ~last.raised
       /\ dest = NoEntry
       /\ saved = last.pre.dest

\* C7: after a check() (dry-run off, no leaf call made to fail, nothing
\* raised) a second check() on a fresh SyncObject returns (False, False)
\* and changes nothing
C7_SecondCheckIsNoop ==
    /\ last.op = "check"
    /\ ~DRY_RUN
    /\ Clean(last)
    => LET again == RunOn(Now, FALSE, "check", {})
       IN  /\ ~again.st.raised
           /\ ~again.updated
           /\ ~again.meta
           /\ again.st.dest = dest
           /\ again.st.saved = saved
           /\ again.st.parent = parent

\* check() went through its ownership and permission part: destination
\* and source exist with the same type and compare(), run on its own from
\* the same state under the same failures, returns True
MetaBranch ==
    /\ last.op = "check"
    /\ dest_stat.exists
    /\ src_stat.type = dest_stat.type
    /\ LET c == RunOn(last.pre, DRY_RUN, "compare", last.faults)
       IN  ~c.st.raised /\ c.updated

OwnerDiffers == src_stat.uid # dest_stat.uid \/ src_stat.gid # dest_stat.gid

ModeDiffers == src_stat.mode # dest_stat.mode

\* the platform changes the owner of the entry: the call does not fail,
\* and a symbolic link needs os.lchown
ChownPermitted ==
    /\ "chown" \notin last.faults
    /\ src.type = "Link" => HAS_LCHOWN

\* C8: when source and destination exist with the same type and compare()
\* returns True, check() returns (False, m) with m true exactly when uid,
\* gid or mode of the source differs from the destination snapshot's; and
\* when the owner differs (dry-run off, chown permitted) the destination
\* has the source's uid and gid afterwards
C8_MetadataBranch ==
    MetaBranch =>
        /\ Returned(FALSE, OwnerDiffers \/ ModeDiffers)
        /\ (OwnerDiffers /\ ~DRY_RUN /\ ChownPermitted) =>
              dest.uid = src.uid /\ dest.gid = src.gid

\* identical regular files with the owner alone different: (False, True)
\* and the owner corrected
C8_Witness ==
    /\ MetaBranch
    /\ src.type = "File"
    /\ ~DRY_RUN
    /\ last.faults = {}
    /\ last.pre.dest.uid # src.uid
    /\ ~ModeDiffers
    /\ Returned(FALSE, TRUE)
    /\ dest.uid = src.uid

\* C9: in the ownership and permission part of check(), set_owner() is
\* called iff uid or gid differs and set_permissions() iff the mode
\* differs, both when both differ, and a chown that fails does not keep
\* the mode from being compared and changed
C9_OwnerAndModeIndependent ==
    MetaBranch =>
        /\ Called("set_owner") <=> OwnerDiffers
        /\ Called("set_permissions") <=> ModeDiffers
        /\ ("chown" \in last.failed /\ ModeDiffers /\ "chmod" \notin last.faults
            /\ src.type # "Link") =>
              dest.mode = BitAnd(src.mode, PERM_MASK)

\* owner and mode both differ, the chown fails, the mode is corrected
C9_Witness ==
    /\ MetaBranch
    /\ OwnerDiffers
    /\ ModeDiffers
    /\ "chown" \in last.failed
    /\ Called("set_owner")
    /\ Called("set_permissions")
    /\ last.pre.dest.mode # BitAnd(src.mode, PERM_MASK)
    /\ dest.mode = BitAnd(src.mode, PERM_MASK)

\* hashlib.md5(content).digest() of a complete file
Digest(c) == Update(EmptyBytes, c)

\* C10: with both files readable, compare() of two regular files, and the
\* block loop of _compare_checksums() on its own, return True iff the
\* contents are identical, which is the verdict of the digests of the
\* complete files
C10_CompareIffIdentical ==
    /\ last.op \in {"compare", "_compare_checksums"}
    /\ src.type = "File"
    /\ last.pre.dest.type = "File"
    /\ last.faults = {}
    => /\ ~last.raised
       /\ last.updated <=> src.content = last.pre.dest.content
       /\ last.updated <=> Digest(src.content) = Digest(last.pre.dest.content)

\* files of the same length, longer than a block, that differ in one byte
\* of the last block compared not equal
C10_Witness ==
    /\ last.op = "compare"
    /\ last.faults = {}
    /\ src.content.len = dest.content.len
    /\ src.content.len > IO_SIZE
    /\ src.content.marks = {}
    /\ dest.content.marks = {src.content.len - 1}
    /\ ~last.raised
    /\ ~last.updated

\* C11: check(), fix(), harddelete() and check_purge_timestamp() return
\* normally for every source type and every failure of a leaf call: no
\* exception leaves the operation
C11_NothingRaised ==
    last.op \in {"check", "fix", "harddelete", "check_purge_timestamp"}
    => ~last.raised

\* check() went through its content part: destination and source exist
\* with the same type and compare(), run on its own from the same state
\* under the same failures, returns False
ContentBranch ==
    /\ last.op = "check"
    /\ dest_stat.exists
    /\ src_stat.type = dest_stat.type
    /\ LET c == RunOn(last.pre, DRY_RUN, "compare", last.faults)
       IN  ~c.st.raised /\ ~c.updated

\* compare() of the source with the destination as it is now, nothing
\* failing, returns True
ComparesEqualNow ==
    LET c == RunOn(Now, FALSE, "compare", {})
    IN  ~c.st.raised /\ c.updated

\* C12: when source and destination exist with the same type and compare()
\* returns False, check() calls fix() and returns (True, False); with
\* dry-run off and no leaf call failing the destination then compares equal
\* to the source, and a destination link points at the source's target
C12_ContentBranchConverges ==
    ContentBranch =>
        /\ Returned(TRUE, FALSE)
        /\ Called("fix")
        /\ (~DRY_RUN /\ last.faults = {}) =>
              /\ dest.type = src.type
              /\ ComparesEqualNow
              /\ src.type = "Link" => dest.target = src.target

\* C13: a regular-file source and no destination (dry-run off, no leaf call
\* failing): check() returns (True, False) and leaves a regular file with
\* the source's content, permission bits, uid and gid
C13_FileCreated ==
    /\ last.op = "check"
    /\ src.type = "File"
    /\ ~dest_stat.exists
    /\ ~DRY_RUN
    /\ last.faults = {}
    => /\ Returned(TRUE, FALSE)
       /\ dest.type = "File"
       /\ dest.content = src.content
       /\ dest.mode = BitAnd(src.mode, PERM_MASK)
       /\ dest.uid = src.uid
       /\ dest.gid = src.gid

\* a file made for a source that is not owned by root and is set-uid, in a
\* parent directory that had to be made
C13_Witness ==
    /\ last.op = "check"
    /\ src.type = "File"
    /\ ~dest_stat.exists
    /\ ~DRY_RUN
    /\ last.faults = {}
    /\ ~last.pre.parent
    /\ src.uid # 0
    /\ src.mode = Mode4755
    /\ dest.type = "File"
    /\ dest.uid = src.uid
    /\ dest.mode = Mode4755
    /\ dest.content = src.content

\* the leaf calls of _compare_checksums()
CompareLeafs == {"open_src", "read_src", "open_dest", "read_dest"}

DestLeafs == {"open_dest", "read_dest"}

\* C14: compare() of two regular files returns False whenever opening or
\* reading the destination fails: in the compare() that has run, and in
\* compare() from the present state under every set of failing calls, the
\* source's among them
C14_DestErrorIsNotEqual ==
    /\ (last.op \in {"compare", "_compare_checksums"}
        /\ last.failed \cap DestLeafs # {})
       => ~last.raised /\ ~last.updated
    /\ (src.type = "File" /\ dest.type = "File") =>
          \A F \in SUBSET CompareLeafs :
             LET c == RunOn(Now, DRY_RUN, "compare", F)
             IN  c.st.failed \cap DestLeafs # {} => ~c.st.raised /\ ~c.updated

\* identical files compared not equal because reading the destination failed
C14_Witness ==
    /\ last.op = "compare"
    /\ src.type = "File"
    /\ last.pre.dest.type = "File"
    /\ src.content = last.pre.dest.content
    /\ "read_dest" \in last.failed
    /\ ~last.raised
    /\ ~last.updated

\* C15: when the sizes in the two snapshots differ, compare() of two
\* regular files returns False and opens or reads neither file, whichever
\* of these calls would fail: for the compare() that has run, and for
\* compare() from the present state under every set of failing calls
C15_SizeShortCircuit ==
    /\ (last.op = "compare" /\ src_stat.type = "File" /\ dest_stat.type = "File"
        /\ src_stat.size # dest_stat.size)
       => /\ ~last.raised
          /\ ~last.updated
          /\ last.failed = {}
          /\ RunOn(last.pre, DRY_RUN, "compare", last.faults).st.tried = {}
    /\ (src.type = "File" /\ dest.type = "File"
        /\ src.content.len # dest.content.len)
       => \A F \in SUBSET CompareLeafs :
             LET c == RunOn(Now, DRY_RUN, "compare", F)
             IN  ~c.st.raised /\ ~c.updated /\ c.st.tried = {}

\* a destination that is the source less its last byte compared not equal
C15_Witness ==
    /\ last.op = "compare"
    /\ src.type = "File"
    /\ dest.type = "File"
    /\ src.content.len = dest.content.len + 1
    /\ src.content.len > IO_SIZE
    /\ src.content.marks = dest.content.marks
    /\ src.content.marks # {}
    /\ ~last.raised
    /\ ~last.updated

LstatLeafs == {"lstat_src", "lstat_dest"}

\* C16: check_purge_timestamp() returns False without changing anything
\* when an lstat fails; otherwise, when the source's mtime is greater than
\* the destination's, it returns False and (dry-run off, utime not failing)
\* the destination has the source's atime and mtime; otherwise it returns
\* True and changes nothing
C16_PurgeTimestamp ==
    last.op = "check_purge_timestamp" =>
        /\ ~last.raised
        /\ IF last.failed \cap LstatLeafs # {}
           THEN ~last.updated /\ Untouched
           ELSE IF src.mtime > last.pre.dest.mtime
           THEN /\ ~last.updated
                /\ (~DRY_RUN /\ last.faults = {}) =>
                      dest.atime = src.atime /\ dest.mtime = src.mtime
           ELSE last.updated /\ Untouched

\* the handler vnode_dest_obj() gave to the harddelete() that has run
DestHandler ==
    vnode_dest_obj(Start(last.pre.dest, last.pre.saved, last.pre.parent),
                   Config(DRY_RUN, BACKUP_COPIES, HAS_LCHOWN, HAS_LCHMOD, UMASK,
                          last.faults),
                   src_stat, dest_stat, src)

\* C17: for a destination of each of the six types and a source of any
\* type, vnode_dest_obj() (no call made to fail) returns the handler of
\* the destination's type, on which harddelete() is then called
C17_DestDispatch ==
    /\ last.op = "harddelete"
    /\ last.faults = {}
    /\ dest_stat.type \in HandlerTypes
    => /\ ~DestHandler.st.raised
       /\ DestHandler.vn.kind = dest_stat.type
       /\ Called("harddelete")

\* C18: every harddelete() writes the deletion line to stdout, in dry-run
\* too, and every harddelete() that removed the entry (dry-run off, the
\* entry gone and not moved aside) writes the 'deleted' line to the log,
\* whether the entry was a directory or not
C18_HardDeleteLogged ==
    (last.op = "harddelete" /\ Called("harddelete")) =>
        /\ "stdout_deleting" \in last.events
        /\ (~DRY_RUN /\ Exists(last.pre.dest) /\ ~Exists(dest)
            /\ saved = last.pre.saved)
           => "log_deleted" \in last.events

\* the calls the last operation made from fix() on, fix() left out
FixCalls ==
    LET i == CHOOSE k \in DOMAIN last.calls : last.calls[k] = "fix"
    IN  SubSeq(last.calls, i + 1, Len(last.calls))

\* step (1) of fix(): nothing when exists is false, move_saved() with
\* backups, quiet_delete() without (that of a directory may itself call
\* move_saved())
Removal ==
    IF ~dest_stat.exists THEN {<< >>}
    ELSE IF BACKUP_COPIES THEN {<<"move_saved">>}
    ELSE {<<"quiet_delete">>, <<"quiet_delete", "move_saved">>}

\* C19: fix() makes its steps in the order removal (only when exists),
\* mkdir_basepath(), create(), set_owner(), set_permissions(), and makes
\* each of them whether or not an earlier one failed
C19_FixOrder ==
    Called("fix") =>
        \E r \in Removal :
            FixCalls = r \o <<"mkdir_basepath", "create", "set_owner",
                              "set_permissions">>

\* the filesystem permits the removal of the entry that was at the
\* destination: no removing call is made to fail and the entry is no
\* directory that holds entries
RemovalPermitted ==
    /\ last.faults \cap {"unlink", "rmdir", "rename"} = {}
    /\ last.pre.dest.type = "Dir" => last.pre.dest.empty

\* C20: fix() with exists true, backups disabled and dry-run off, for every
\* handler and every type of the existing entry whose removal the
\* filesystem permits: no entry is at the destination when create() is
\* called
C20_CreateOnClearedPath ==
    /\ Called("fix")
    /\ Called("create")
    /\ dest_stat.exists
    /\ ~BACKUP_COPIES
    /\ ~DRY_RUN
    /\ RemovalPermitted
    => "create_over_entry" \notin last.events

\* C21: a compare() call, of any handler and with any outcome, one that
\* meets a failing call included, returns a boolean and leaves the
\* destination, its .saved sibling, the parent directory and the source as
\* they were
C21_CompareIsPure ==
    [][(last'.op = "compare" /\ "compare" \in Range(last'.calls))
       => /\ ~last'.raised
          /\ last'.updated \in BOOLEAN
          /\ dest' = dest
          /\ saved' = saved
          /\ parent' = parent
          /\ src' = src]_vars

\* a compare() that met a failing call and returned False
C21_Witness ==
    /\ last.op = "compare"
    /\ Called("compare")
    /\ last.failed # {}
    /\ Exists(dest)
    /\ ~last.raised
    /\ ~last.updated
    /\ Untouched

-----------------------------------------------------------------------------
(* create() of a directory *)

\* create() of the handler of a source directory ran
DirCreate == last.op = "create" /\ src.type = "Dir" /\ Called("create")

\* os.path.exists() of the destination, before the operation
ExistedBefore ==
    IF last.pre.dest.type = "Link" THEN "dangling" \notin last.faults
    ELSE Exists(last.pre.dest)

\* os.mkdir() was called and did not fail
MkdirDone == ~ExistedBefore /\ ~DRY_RUN /\ "create" \notin last.failed

\* create() once more from the filesystem as it is now, under the faults F
CreateAgain(F) == RunOn(Now, DRY_RUN, "create", F).st

-----------------------------------------------------------------------------
(* compare() of the device handlers *)

\* compare() of the handler of a source device ran
DevCompare ==
    last.op = "compare" /\ src.type \in {"Chr", "Blk"} /\ Called("compare")

\* the fresh os.lstat() of the destination gave the source's numbers
SameDevice ==
    /\ Exists(last.pre.dest)
    /\ "lstat_dest" \notin last.failed
    /\ last.pre.dest.major = src.major
    /\ last.pre.dest.minor = src.minor

\* C23: compare() of a character or block device returns True exactly when
\* the destination exists, the fresh os.lstat() of it succeeds and its major
\* and minor numbers both equal the source's; otherwise it returns False
C23_DeviceCompare ==
    DevCompare => ~last.raised /\ (last.updated <=> SameDevice)

\* a block device whose major number alone differs compared unequal
C23_Witness ==
    /\ DevCompare
    /\ src.type = "Blk"
    /\ last.pre.dest.type = "Blk"
    /\ last.failed = {}
    /\ last.pre.dest.major # src.major
    /\ last.pre.dest.minor = src.minor
    /\ ~last.updated
    /\ "terse_sync" \in last.events

\* C24: check() never returns (True, True): when it reports an update it
\* reports no metadata change, and it reports a metadata change only where
\* compare() found the content equal and fix() was not called
C24_NeverBothFlags ==
    (last.op = "check" /\ ~last.raised) =>
        /\ ~(last.updated /\ last.meta)
        /\ last.updated => ~last.meta
        /\ last.meta => MetaBranch /\ Called("compare") /\ ~Called("fix")

\* a directory whose mode alone differs: (False, True) without fix()
C24_Witness ==
    /\ last.op = "check"
    /\ src.type = "Dir"
    /\ last.pre.dest.type = "Dir"
    /\ ModeDiffers
    /\ ~OwnerDiffers
    /\ Returned(FALSE, TRUE)
    /\ Called("compare")
    /\ ~Called("fix")

\* the calls that remove, rename, make or rewrite an entry, make the parent
\* directory chain or set times
ReplacingCalls ==
    {"fix", "create", "harddelete", "quiet_delete", "move_saved",
     "mkdir_basepath", "set_times"}

\* the calls to the operating system they make
ReplacingLeafs ==
    {"unlink", "rmdir", "rename", "create", "copy", "copymode", "mkdir_p",
     "utime"}

\* what these calls report
ReplacingEvents ==
    {"terse_new", "terse_mkdir", "terse_link", "terse_delete", "terse_sync",
     "stdout_deleting", "log_deleted", "log_creating", "log_updating",
     "log_fix_type", "create_over_entry"}

\* the entry e with the owner, group and mode of the entry d
WithOwnerAndMode(e, d) ==
    [e EXCEPT !.uid = d.uid, !.gid = d.gid, !.mode = d.mode]

\* C25: in the ownership and permission part of check() (same type,
\* compare() True) the destination is changed by chown and chmod alone: it
\* is not removed, renamed to .saved, made again or rewritten, its type,
\* content, target, device numbers and times stay, no parent directory is
\* made, and in dry-run nothing changes at all
C25_MetadataPathFrame ==
    MetaBranch =>
        /\ Range(last.calls) \cap ReplacingCalls = {}
        /\ last.events \cap ReplacingEvents = {}
        /\ last.failed \cap ReplacingLeafs = {}
        /\ WithOwnerAndMode(dest, last.pre.dest) = last.pre.dest
        /\ saved = last.pre.saved
        /\ parent = last.pre.parent
        /\ dest.uid # last.pre.dest.uid => Called("set_owner")
        /\ dest.gid # last.pre.dest.gid => Called("set_owner")
        /\ dest.mode # last.pre.dest.mode => Called("set_permissions")
        /\ DRY_RUN => Untouched

\* owner and mode of a regular file both corrected, content and times kept
C25_Witness ==
    /\ MetaBranch
    /\ src.type = "File"
    /\ ~DRY_RUN
    /\ dest.uid # last.pre.dest.uid
    /\ dest.mode # last.pre.dest.mode
    /\ dest.content = last.pre.dest.content
    /\ dest.atime = last.pre.dest.atime
    /\ dest.atime # src.atime
    /\ saved = last.pre.saved
    /\ Called("set_owner")
    /\ Called("set_permissions")

-----------------------------------------------------------------------------
(* aggregate(): the groups *)

HasColon(l) == \E i \in DOMAIN l : l[i] = ":"

FirstColon(l) == CHOOSE k \in DOMAIN l : l[k] = ":" /\ \A j \in 1 .. k - 1 : l[j] # ":"

\* the node label of a line 'node:output', and the output
NodeOf(l) == SubSeq(l, 1, FirstColon(l) - 1)
OutputOf(l) == SubSeq(l, FirstColon(l) + 1, Len(l))

\* the lines as aggregate() looks at them
Stripped == [i \in DOMAIN input |-> string_strip(input[i])]

Nodes == {NodeOf(Stripped[i]) : i \in {k \in DOMAIN input : HasColon(Stripped[k])}}

\* the ordered list of the output lines of the node n
OutputsOf(n) ==
    LET IsOf(l) == HasColon(l) /\ NodeOf(l) = n
        mine == SelectSeq(Stripped, IsOf)
    IN  [i \in DOMAIN mine |-> OutputOf(mine[i])]

\* where the group headers are in what was printed
Headers == {i \in DOMAIN printed : printed[i].kind = "header"}

\* the headers that name the node n
GroupsOf(n) == {i \in Headers : n \in Range(printed[i].nodes)}

IsPlain(p) == p.kind = "line"
HasNoColon(l) == ~HasColon(l)

\* C26 as stated: the lines without ':' are printed unchanged
C26_PlainLinesUnchanged ==
    aggregated =>
        LET plain == SelectSeq(printed, IsPlain)
        IN  [i \in DOMAIN plain |-> plain[i].text] = SelectSeq(input, HasNoColon)

\* C26: aggregate() strips leading and trailing whitespace from every line
\* and then partitions the node labels: every node with a 'node:output'
\* line is in exactly one group header, two nodes share a group iff their
\* ordered lists of output lines (as stripped) are identical, the output
\* list of a group is printed once after its header, the groups come in
\* sorted order of their first node, and the lines without ':' are
\* printed stripped, in input order, before every group and under no header
C26_AggregatePartitions ==
    aggregated =>
        /\ \A n \in Nodes :
             /\ Cardinality(GroupsOf(n)) = 1
             /\ \A i \in GroupsOf(n) :
                  Cardinality({k \in DOMAIN printed[i].nodes :
                                 printed[i].nodes[k] = n}) = 1
        /\ \A i \in Headers :
             /\ printed[i].nodes # << >>
             /\ Range(printed[i].nodes) \subseteq Nodes
             /\ printed[i].text = string_join(printed[i].nodes, ",") \o << ":" >>
        /\ \A n \in Nodes, m \in Nodes :
             (GroupsOf(n) = GroupsOf(m)) <=> (OutputsOf(n) = OutputsOf(m))
        /\ \A i \in Headers :
             LET out == OutputsOf(printed[i].nodes[1])
                 next == i + Len(out) + 1
             IN  /\ i + Len(out) <= Len(printed)
                 /\ \A k \in 1 .. Len(out) : printed[i + k] = OutputLine(out[k])
                 /\ next <= Len(printed) => next \in Headers
        /\ \A i \in Headers, j \in Headers :
             i < j => StrLess(printed[i].nodes[1], printed[j].nodes[1])
        /\ LET plain == SelectSeq(Stripped, HasNoColon)
           IN  /\ Len(plain) <= Len(printed)
               /\ \A k \in DOMAIN plain : printed[k] = PlainLine(plain[k])
               /\ Len(plain) < Len(printed) => (Len(plain) + 1) \in Headers
               /\ \A k \in DOMAIN printed : IsPlain(printed[k]) => k <= Len(plain)

\* three nodes in two groups, the first of them with the first and the
\* last node, after a line without ':' that lost its leading whitespace
C26_Witness ==
    /\ aggregated
    /\ Cardinality(Nodes) = 3
    /\ Cardinality(Headers) = 2
    /\ \E i \in Headers : Len(printed[i].nodes) = 2
    /\ printed[1].kind = "line"
    /\ \E i \in DOMAIN input : HasNoColon(input[i]) /\ input[i] # Stripped[i]
                               /\ printed[1].text = Stripped[i]
    /\ printed[2].kind = "header"
    /\ printed[2].nodes = << <<"a">>, <<"c">> >>

====
